---- MODULE Spec2Model ----
(***************************************************************************)
(* cliDataForge: the stage pipeline processor.                             *)
(*   clidataforge/llm.py       LLMClient        (completion gateway)       *)
(*   clidataforge/db.py        DatabaseHandler  (record store, scanner)    *)
(*   clidataforge/pipeline.py  PipelineExecutor (row pipeline runner)      *)
(*   clidataforge/cli.py       process_all      (concurrent batch driver)  *)
(*                                                                         *)
(* A text is a sequence of tokens, so that substring tests of the code     *)
(* ("Error:" in response, "Content Exists Risk" in str(e)) are computed.   *)
(* A cell, and any Optional[str], is <<>> (NULL / None) or <<text>>.       *)
(***************************************************************************)
EXTENDS Integers, Sequences, FiniteSets, TLC

(* ---- bounds of the model ---- *)
NumRecords == 2
MaxThreads == 2
MaxRuns == 2
MaxRetriesBound == 3
MaxLimit == 3
MaxNameLen == 2
MaxOptions == 2
BacklogRecords == 3
MaxFiles == 3

(* ---- program constants ---- *)
DefaultMaxRetries == 3
BatchMultiplier == 2

(* ---- texts and cells ---- *)
Null == <<>>
Some(t) == <<t>>
IsNull(c) == c = <<>>
TextOf(c) == c[1]

\* Python truthiness of an Optional[str]: None and "" are falsy
Truthy(c) == c # <<>> /\ c[1] # <<>>

\* `tok in text`: the substring test, on tokens
Contains(t, tok) == \E i \in 1..Len(t) : t[i] = tok

ErrorMarker == "Error:"
RiskMarker == "Content Exists Risk"
Separator == "\n\n\n\n"

PolicyText == <<"400">>
ExhaustedText == <<ErrorMarker, "Maximum retries exceeded">>

(* ---- stage specs, as PipelineExecutor.__init__ parses them ---- *)
\* one stage "a+b:dst" is [src |-> <<"a","b">>, dst |-> "dst"]
Stage(src, dst) == [src |-> src, dst |-> dst]

StageSpecs ==
  { <<Stage(<<"chunk">>, "summary")>>,
    <<Stage(<<"chunk">>, "summary"), Stage(<<"summary">>, "analysis")>>,
    <<Stage(<<"title", "body">>, "summary")>> }

DestsOf(stgs) == {stgs[k].dst : k \in 1..Len(stgs)}
SourcesOf(stgs) == UNION {{stgs[k].src[j] : j \in 1..Len(stgs[k].src)} : k \in 1..Len(stgs)}
ColsOf(stgs) == SourcesOf(stgs) \cup DestsOf(stgs)
LastDest(stgs) == stgs[Len(stgs)].dst

\* the ids of the data table: index SERIAL PRIMARY KEY (db.py:162)
RecordIds(n) == 1..n

(* ---- the --stages string and its two parsers ---- *)
\* the string is a sequence of tokens: names and the separators "," ":" "+"
StageStrings ==
  { <<"chunk", ":", "summary">>,
    <<"chunk", ":", "summary", ",", "summary", ":", "analysis">>,
    <<"title", "+", "body", ":", "summary">>,
    <<"chunk">>,
    <<"chunk", ":", "summary", ",", "analysis">>,
    <<"chunk", ":", "summary", ":", "analysis">> }

\* str.split(sep)
RECURSIVE split(_, _)
split(s, sep) ==
  IF \A i \in 1..Len(s) : s[i] # sep THEN <<s>>
  ELSE LET i == CHOOSE i \in 1..Len(s) : s[i] = sep /\ \A j \in 1..(i - 1) : s[j] # sep
       IN <<SubSeq(s, 1, i - 1)>> \o split(SubSeq(s, i + 1, Len(s)), sep)

\* the name a piece of the string spells
NameOf(piece) == IF piece = <<>> THEN "" ELSE piece[1]

\* the pair (source, dest) as a stage: the source is split on "+" where it is used
\* (pipeline.py:106, db.py:366)
PairToStage(source_part, dest) ==
  LET cols == split(source_part, "+")
  IN Stage([j \in 1..Len(cols) |-> NameOf(cols[j])], NameOf(dest))

\* a parser that leaves out the pairs it cannot unpack
init_parse_skipping(raw) ==
  LET pieces == split(raw, ",")
      good == SelectSeq(pieces, LAMBDA piece : Len(split(piece, ":")) = 2)
  IN [raised |-> "none",
      stages |-> [n \in 1..Len(good) |->
                    PairToStage(split(good[n], ":")[1], split(good[n], ":")[2])]]

\* PipelineExecutor.__init__ (pipeline.py:34-39): source_part, dest = stage.split(':')
\* is a ValueError unless the pair has exactly two parts
init_parse(raw) ==
  LET pieces == split(raw, ",")
  IN IF \E n \in 1..Len(pieces) : Len(split(pieces[n], ":")) # 2
       THEN [raised |-> "ValueError", stages |-> <<>>]
       ELSE [raised |-> "none",
             stages |-> [n \in 1..Len(pieces) |->
                           PairToStage(split(pieces[n], ":")[1], split(pieces[n], ":")[2])]]

\* the commands' own parse (cli.py:40-41): s.split(':')[1] is an IndexError when the
\* pair has no ":"; parts after the second are dropped
cli_parse(raw) ==
  LET pieces == split(raw, ",")
  IN IF \E n \in 1..Len(pieces) : Len(split(pieces[n], ":")) < 2
       THEN [raised |-> "IndexError", stages |-> <<>>]
       ELSE [raised |-> "none",
             stages |-> [n \in 1..Len(pieces) |->
                           PairToStage(split(pieces[n], ":")[1], split(pieces[n], ":")[2])]]

\* the strings that spell a stage spec
StringsOf(stgs) ==
  {raw \in StageStrings : init_parse(raw).raised = "none" /\ init_parse(raw).stages = stgs}

(* ---- column-name suggestions: PipelineExecutor.find_closest_match ---- *)
\* a name is a sequence of characters, so that lower(), "in", startswith and endswith
\* are computed
Alphabet == {"a", "b", "A"}
lower_char(ch) == IF ch = "A" THEN "a" ELSE ch
lower(name) == [i \in 1..Len(name) |-> lower_char(name[i])]

\* the names tried: up to MaxNameLen characters, written in lower case or capitalised
Names ==
  {nm \in UNION {[1..n -> Alphabet] : n \in 1..MaxNameLen} :
     \A i \in 2..Len(nm) : nm[i] # "A"}

\* the lists of existing columns: distinct names, in the order of the catalogue
OptionLists ==
  UNION {{o \in [1..n -> Names] : \A i, j \in 1..n : i # j => o[i] # o[j]} : n \in 0..MaxOptions}

\* Python's `a in b` on strings
IsIn(a, b) == \E i \in 0..(Len(b) - Len(a)) : SubSeq(b, i + 1, i + Len(a)) = a
startswith(s, prefix) == Len(prefix) <= Len(s) /\ SubSeq(s, 1, Len(prefix)) = prefix
endswith(s, suffix) ==
  Len(suffix) <= Len(s) /\ SubSeq(s, Len(s) - Len(suffix) + 1, Len(s)) = suffix

\* the tests of the three loops (pipeline.py:124, 128, 135)
is_exact(target, opt) == lower(opt) = lower(target)
is_contains(target, opt) == IsIn(lower(target), lower(opt)) \/ IsIn(lower(opt), lower(target))
is_affix(target, opt) ==
  startswith(lower(opt), lower(target)) \/ endswith(lower(opt), lower(target))

\* the first option, in list order, among the positions that passed a test; None when
\* there is none
FirstOption(options, passed) ==
  IF passed = {} THEN Null
  ELSE Some(options[CHOOSE n \in passed : \A m \in passed : n <= m])

ExactMatches(target, options) == {n \in 1..Len(options) : is_exact(target, options[n])}
ContainsMatches(target, options) == {n \in 1..Len(options) : is_contains(target, options[n])}
AffixMatches(target, options) == {n \in 1..Len(options) : is_affix(target, options[n])}

\* a matcher that tries containment before the exact match
find_closest_match_contains_first(target, options) ==
  IF options = <<>> THEN Null
  ELSE IF ContainsMatches(target, options) # {}
    THEN FirstOption(options, ContainsMatches(target, options))
  ELSE FirstOption(options, ExactMatches(target, options))

\* PipelineExecutor.find_closest_match
find_closest_match(target, options) ==
  IF options = <<>> THEN Null
  ELSE IF ExactMatches(target, options) # {}
    THEN FirstOption(options, ExactMatches(target, options))
  ELSE IF ContainsMatches(target, options) # {}
    THEN FirstOption(options, ContainsMatches(target, options))
  ELSE FirstOption(options, AffixMatches(target, options))

(* ---- completion gateway: LLMClient ---- *)
\* what one transport call (post_completion and the reading of its response) does
OkResponse(content) == [kind |-> "ok", content |-> content, msg |-> <<>>]
BadStatus == [kind |-> "status", content |-> <<>>, msg |-> <<>>]
Raises(msg) == [kind |-> "raise", content |-> <<>>, msg |-> msg]

TransportOutcomes ==
  { OkResponse(<<"ok">>), OkResponse(<<ErrorMarker, "ok">>), OkResponse(<<>>),
    BadStatus, Raises(<<"timed out">>), Raises(<<"400", RiskMarker>>) }

Scripts(n) == [1..n -> TransportOutcomes]

\* an attempt that returns whatever content a 200 response carries
AttemptReturnsAnyContent(o) == o.kind = "ok"

\* the attempt returns content (llm.py:85-88)
AttemptReturns(o) == o.kind = "ok" /\ o.content # <<>>

\* str(e) of the exception the attempt ends in (llm.py:90, 92, or the transport's own)
ExceptionText(o) ==
  IF o.kind = "ok" THEN <<"Empty response content">>
  ELSE IF o.kind = "status" THEN <<"API request failed with status">>
  ELSE o.msg

\* a handler that looks for the sentinel in failed responses only, never in str(e)
PolicyRejectedByStatus(o) == o.kind = "status"

\* the except handler's test for the policy sentinel (llm.py:98)
PolicyRejected(o) == Contains(ExceptionText(o), RiskMarker)

\* a backoff whose exponent is the number of the attempt to come
wait_time_of_next(attempt) == 2 ^ (attempt + 1)

\* the argument of time.sleep: 2 ** attempt (llm.py:102)
wait_time(attempt) == 2 ^ attempt

\* LLMClient.complete from attempt index `attempt` on; waits are the sleeps done so far
RECURSIVE completeFrom(_, _, _, _)
completeFrom(script, max_retries, attempt, waits) ==
  IF attempt >= max_retries
    THEN [kind |-> "exhausted", text |-> ExhaustedText, calls |-> attempt, waits |-> waits]
    ELSE LET o == script[attempt + 1] IN
      IF AttemptReturns(o)
        THEN [kind |-> "success", text |-> o.content, calls |-> attempt + 1, waits |-> waits]
      ELSE IF PolicyRejected(o)
        THEN [kind |-> "policy", text |-> PolicyText, calls |-> attempt + 1, waits |-> waits]
      ELSE completeFrom(script, max_retries, attempt + 1,
                        IF attempt < max_retries - 1 THEN Append(waits, wait_time(attempt))
                        ELSE waits)

\* a retry loop that stops one attempt early
completeOneShort(script, max_retries) == completeFrom(script, max_retries - 1, 0, <<>>)

complete(script, max_retries) == completeFrom(script, max_retries, 0, <<>>)

\* what self.llm.complete(messages) can return to process_stage, over all behaviours
\* of the transport
CompleteResults == {complete(script, DefaultMaxRetries) : script \in Scripts(DefaultMaxRetries)}

\* a message builder that leaves the previous response out
build_messages_without_previous(prompt, system_prompt, previous_response) ==
  <<[role |-> "system", content |-> TextOf(system_prompt)]>>
    \o (IF Truthy(prompt) THEN <<[role |-> "user", content |-> TextOf(prompt)]>> ELSE <<>>)

\* LLMClient.build_messages
Message(role, content) == [role |-> role, content |-> content]
build_messages(prompt, system_prompt, previous_response) ==
  <<Message("system", TextOf(system_prompt))>>
    \o (IF Truthy(previous_response) THEN <<Message("user", TextOf(previous_response))>> ELSE <<>>)
    \o (IF Truthy(prompt) THEN <<Message("user", TextOf(prompt))>> ELSE <<>>)

(* ---- record store: DatabaseHandler ---- *)
RECURSIVE Ascending(_)
Ascending(S) ==
  IF S = {} THEN <<>>
  ELSE LET m == CHOOSE x \in S : \A y \in S : x <= y IN <<m>> \o Ascending(S \ {m})

Take(s, n) == SubSeq(s, 1, IF Len(s) < n THEN Len(s) ELSE n)

\* the SELECT expression of the scanner: one column, or the columns joined by ||
\* (SQL: NULL || x is NULL)
RECURSIVE Concat(_, _, _)
Concat(row, cols, j) ==
  IF IsNull(row[cols[j]]) THEN Null
  ELSE IF j = Len(cols) THEN row[cols[j]]
  ELSE LET rest == Concat(row, cols, j + 1) IN
    IF IsNull(rest) THEN Null
    ELSE Some(TextOf(row[cols[j]]) \o <<Separator>> \o TextOf(rest))

select_part(row, source_cols) == Concat(row, source_cols, 1)

\* a scanner whose WHERE clause tests IS NOT NULL
UnprocessedInverted(tbl, stgs, i) == ~IsNull(tbl[i][stgs[Len(stgs)].dst])

\* the WHERE clause of the scanner (db.py:383)
Unprocessed(tbl, stgs, i) == IsNull(tbl[i][LastDest(stgs)])

\* a query whose rows all carry the index of the first one
fetchallRepeating(tbl, stgs, limit) ==
  LET ids == Take(Ascending({i \in DOMAIN tbl : Unprocessed(tbl, stgs, i)}), limit) IN
    [n \in 1..Len(ids) |-> <<ids[1], select_part(tbl[ids[1]], stgs[1].src)>>]

\* cursor.fetchall() of the scanner's query (db.py:380-392)
fetchall(tbl, stgs, limit) ==
  LET ids == Take(Ascending({i \in DOMAIN tbl : Unprocessed(tbl, stgs, i)}), limit) IN
    [n \in 1..Len(ids) |-> <<ids[n], select_part(tbl[ids[n]], stgs[1].src)>>]

\* DatabaseHandler.get_unprocessed_chunks; storeUp = FALSE is a failed query. The
\* except branch answers [] for it, and also for the TypeError of results[0][1][:100]
\* (db.py:398) when the first row's source content is NULL
get_unprocessed_chunks(tbl, stgs, limit, storeUp) ==
  IF ~storeUp THEN <<>>
  ELSE LET results == fetchall(tbl, stgs, limit) IN
    IF results # <<>> /\ IsNull(results[1][2]) THEN <<>> ELSE results

\* DatabaseHandler.get_total_count: the unsplit source string is used as one column
\* name, so a "+"-joined source names no column and the query fails
get_total_count(tbl, stgs, storeUp) ==
  IF ~storeUp \/ Len(stgs[1].src) # 1 THEN 0
  ELSE Cardinality({i \in DOMAIN tbl : ~IsNull(tbl[i][stgs[1].src[1]])})

\* DatabaseHandler.get_processed_count
get_processed_count(tbl, stgs, storeUp) ==
  IF ~storeUp THEN 0
  ELSE Cardinality({i \in DOMAIN tbl : ~IsNull(tbl[i][LastDest(stgs)])})

\* a lookup that answers with a default prompt when the table has none
get_system_prompt_with_default(prm, stage) == Some(<<"sys">>)

\* DatabaseHandler.get_system_prompt, on the rows of the prompt table
get_system_prompt(prm, stage) == prm[stage]

ScanIds(result) == {result[n][1] : n \in 1..Len(result)}

(* ---- state ---- *)
VARIABLES
  stages,            \* PipelineExecutor.stages / DatabaseHandler.pipeline_stages
  stages_arg,        \* the --stages string
  threads,           \* --threads
  prompts,           \* rows of the prompt table, by stage name
  table,             \* committed rows of the data table: id -> column -> cell
  pending,           \* statements of the open transaction on the shared connection
  dpc,               \* position of process_all: "idle", "loop", "scanned", "wait", "done"
  run,               \* number of process-all invocations started
  total_count, total_chunks, total_successful,
  chunks,            \* result of the last get_unprocessed_chunks
  scanInfo,          \* history: the arguments of that call and whether the store answered
  futures,           \* the batch handed to the executor, in submission order
  wk,                \* pool workers: position in execute_pipeline / process_stage
  last,              \* history: the execute_pipeline call of this batch that returned last
  hist,              \* history of the runs
  gw,                \* a single complete() call observed on its own
  prompt_cache,      \* DatabaseHandler._prompt_cache: the stage names it holds
  pool_lock,         \* DatabaseHandler._pool_lock: 0 when free, else the holding worker
  columns,           \* the columns of the data table
  built,             \* how the construction of the PipelineExecutor ended
  fcm,               \* a single find_closest_match call observed on its own
  environ,           \* os.environ: the names of the variables that are set
  ph                 \* one DatabaseHandler used for its prompt calls: the rows of the
                     \* prompt table, _prompt_cache, data_table, the last call (failed:
                     \* it raised or met a store error) and whether any statement of
                     \* any call has failed in the store (faulted)
VARIABLES
  feed               \* llamacpp/feedQaPrompt.py: processed_files.db (status by file),
                     \* the ProcessingStatus sets and how many files main has handled

vars == <<stages, stages_arg, threads, prompts, table, pending, dpc, run, total_count, total_chunks,
          total_successful, chunks, scanInfo, futures, wk, last, hist, gw,
          prompt_cache, pool_lock, columns, built, fcm, environ, ph, feed>>

config == <<stages, stages_arg, threads, prompts>>
counters == <<total_count, total_chunks, total_successful>>
locks == <<prompt_cache, pool_lock>>
schema == <<columns, built>>
tools == <<fcm, environ, ph, feed>>
Ids == DOMAIN table
NoMatchCall == [phase |-> "off", target |-> <<>>, options |-> <<>>, result |-> <<>>]
ModelVariable == "CLI_DF_MODEL"
NoPromptCalls == [data_table |-> <<>>, rows |-> <<>>, cache |-> <<>>, op |-> "none",
                  key |-> <<>>, ret |-> <<>>, failed |-> FALSE, faulted |-> FALSE]
NoFeed == [processed_files |-> <<>>, active_files |-> {}, completed_files |-> {},
           failed_files |-> {}, handled |-> 0]
ToolsIdle == fcm = NoMatchCall /\ environ = {ModelVariable} /\ ph = NoPromptCalls /\ feed = NoFeed

Workers == 1..threads

IdleWorker ==
  [pc |-> "idle", fi |-> 0, k |-> 0, responses |-> <<>>, messages |-> <<>>,
   response |-> <<>>, start |-> <<>>, log |-> <<>>]

NoScan == [done |-> FALSE, limit |-> 0, up |-> FALSE]
NoCall == [id |-> 0, start |-> <<>>, log |-> <<>>, responses |-> <<>>]
NoHistory ==
  [submitted |-> 0, gwFailed |-> FALSE, storeFailed |-> FALSE, endTable |-> <<>>,
   startColumns |-> {}, attempted |-> {}, processed |-> 0]
NoGateway == [phase |-> "off", script |-> <<>>, max_retries |-> 0, result |-> <<>>]

\* cells a data table can hold before a run
SourceCells(col) == {Null, Some(<<col>>)}
DestCells == {Null, Some(<<"old">>)}
RowsOver(stgs, srcCells, dstCells) ==
  {r \in [ColsOf(stgs) -> dstCells \cup UNION {srcCells[c] : c \in SourcesOf(stgs)}] :
     \A c \in ColsOf(stgs) :
       IF c \in DestsOf(stgs) THEN r[c] \in dstCells ELSE r[c] \in srcCells[c]}
InitRows(stgs) == RowsOver(stgs, [c \in SourcesOf(stgs) |-> SourceCells(c)], DestCells)

PromptRows == {Null, Some(<<"sys">>)}

Init ==
  /\ stages \in StageSpecs
  /\ threads \in 1..MaxThreads
  /\ prompts \in [DestsOf(stages) -> PromptRows]
  /\ table \in [RecordIds(NumRecords) -> InitRows(stages)]
  /\ pending = <<>>
  /\ dpc = "idle"
  /\ run = 0
  /\ total_count = 0 /\ total_chunks = 0 /\ total_successful = 0
  /\ chunks = <<>>
  /\ scanInfo = NoScan
  /\ futures = <<>>
  /\ wk = [w \in Workers |-> IdleWorker]
  /\ last = NoCall
  /\ hist = [NoHistory EXCEPT !.startColumns = ColsOf(stages)]
  /\ gw = NoGateway
  /\ ToolsIdle
  /\ prompt_cache = {}
  /\ pool_lock = 0
  /\ columns = ColsOf(stages)
  /\ built = "ok"
  /\ stages_arg \in StringsOf(stages)

\* whether a statement on the data table that names the columns cols can succeed:
\* it fails when one of them does not exist, and may fail in any case
Answers(cols) == IF cols \subseteq columns THEN BOOLEAN ELSE {FALSE}

\* the columns named by the scanner's query, by get_total_count and by
\* get_processed_count
ScanColumns == {stages[1].src[j] : j \in 1..Len(stages[1].src)} \cup {LastDest(stages)}
TotalColumns == {stages[1].src[1]}
ProcessedColumns == {LastDest(stages)}

(* ---- batch driver: process_all ---- *)
\* cli.py:64-78
StartRun ==
  /\ built = "ok"
  /\ dpc \in {"idle", "done"}
  /\ \E upT \in Answers(TotalColumns), upP \in Answers(ProcessedColumns) :
       LET processed_count == get_processed_count(table, stages, upP) IN
       /\ total_count' = get_total_count(table, stages, upT)
       /\ total_chunks' = processed_count
       /\ total_successful' = processed_count
       /\ hist' = [hist EXCEPT !.submitted = 0,
                               !.attempted = {},
                               !.processed = processed_count,
                               !.storeFailed = @ \/ ~upT \/ ~upP,
                               !.endTable = IF run = 0 THEN <<>> ELSE table]
  /\ run' = run + 1
  /\ dpc' = "loop"
  /\ chunks' = <<>>
  /\ scanInfo' = NoScan
  /\ futures' = <<>>
  /\ last' = NoCall
  /\ prompt_cache' = {}
  /\ pool_lock' = 0
  /\ UNCHANGED <<config, tools, schema, table, pending, wk, gw>>

\* the command is invoked once
ProcessAll == run = 0 /\ StartRun

\* the command is invoked again after it has ended
ProcessAllAgain == run < MaxRuns /\ StartRun

\* cli.py:82-86
Scan ==
  /\ dpc = "loop"
  /\ IF total_chunks < total_count
       THEN \E up \in Answers(ScanColumns) :
              /\ chunks' = get_unprocessed_chunks(table, stages, threads * BatchMultiplier, up)
              /\ scanInfo' = [done |-> TRUE, limit |-> threads * BatchMultiplier, up |-> up]
              /\ hist' = [hist EXCEPT !.storeFailed = @ \/ ~up]
              /\ dpc' = IF chunks' = <<>> THEN "done" ELSE "scanned"
       ELSE /\ dpc' = "done"
            /\ UNCHANGED <<chunks, scanInfo, hist>>
  /\ UNCHANGED <<config, tools, locks, schema, table, pending, run, counters, futures, wk, last, gw>>

NewFuture(chunk) ==
  [id |-> chunk[1], prompt |-> chunk[2], status |-> "queued", result |-> FALSE]

\* cli.py:89
Submit ==
  /\ dpc = "scanned"
  /\ futures' = [n \in 1..Len(chunks) |-> NewFuture(chunks[n])]
  /\ hist' = [hist EXCEPT !.submitted = @ + Len(chunks),
                          !.attempted = @ \cup ScanIds(chunks)]
  /\ last' = NoCall
  /\ dpc' = "wait"
  /\ UNCHANGED <<config, tools, locks, schema, table, pending, run, counters, chunks, scanInfo, wk, gw>>

\* a driver that counts the batch without waiting for its futures
CollectWithoutWaiting ==
  /\ dpc = "wait"
  /\ total_chunks' = total_chunks + Len(futures)
  /\ total_successful' = total_successful + Len(futures)
  /\ dpc' = "loop"
  /\ UNCHANGED <<config, tools, locks, schema, table, pending, run, total_count, chunks, scanInfo, futures, wk, last, hist, gw>>

\* a driver that collects the results and leaves total_chunks as it was
CollectWithoutCounting ==
  /\ dpc = "wait"
  /\ \A n \in 1..Len(futures) : futures[n].status = "done"
  /\ total_chunks' = total_chunks
  /\ total_successful' = total_successful
                           + Cardinality({n \in 1..Len(futures) : futures[n].result})
  /\ dpc' = "loop"
  /\ UNCHANGED <<config, tools, locks, schema, table, pending, run, total_count, chunks, scanInfo, futures, wk, last, hist, gw>>

\* cli.py:92-96, once every future of the batch has its result
Collect ==
  /\ dpc = "wait"
  /\ \A n \in 1..Len(futures) : futures[n].status = "done"
  /\ total_chunks' = total_chunks + Len(futures)
  /\ total_successful' = total_successful
                           + Cardinality({n \in 1..Len(futures) : futures[n].result})
  /\ dpc' = "loop"
  /\ UNCHANGED <<config, tools, locks, schema, table, pending, run, total_count, chunks, scanInfo, futures, wk, last, hist, gw>>

(* ---- pool workers: process_chunk_wrapper, execute_pipeline, process_stage ---- *)
Last(s) == s[Len(s)]

\* process_chunk_wrapper's return value (cli.py:54-62)
WrapperResult(raised) == ~raised

\* execute_pipeline returns (pipeline.py:93 or 97) and the wrapper with it
Returned(fut) == [fut EXCEPT !.status = "done", !.result = WrapperResult(FALSE)]

LogEntry(k, messages, r) ==
  [k |-> k, messages |-> messages, kind |-> r.kind, text |-> r.text, update |-> "none",
   written |-> "no"]

\* worker w leaves execute_pipeline with the given log and responses
Return(w, log, responses) ==
  /\ wk' = [wk EXCEPT ![w] = IdleWorker]
  /\ futures' = [futures EXCEPT ![wk[w].fi] = Returned(@)]
  /\ last' = [id |-> futures[wk[w].fi].id, start |-> wk[w].start, log |-> log,
              responses |-> responses]

\* a worker of the pool takes the next queued task (cli.py:51-55, pipeline.py:73-75);
\* idle pool threads are interchangeable: the lowest-numbered idle one takes it
TakeTask(w) ==
  /\ dpc = "wait"
  /\ wk[w].pc = "idle"
  /\ \A v \in 1..(w - 1) : wk[v].pc # "idle"
  /\ \E i \in 1..Len(futures) :
       /\ futures[i].status = "queued"
       /\ \A j \in 1..(i - 1) : futures[j].status # "queued"
       /\ wk' = [wk EXCEPT ![w] = [IdleWorker EXCEPT !.pc = "stage", !.fi = i, !.k = 1,
                                                     !.start = table[futures[i].id]]]
       /\ futures' = [futures EXCEPT ![i].status = "running"]
  /\ UNCHANGED <<config, tools, locks, schema, table, pending, dpc, run, counters, chunks, scanInfo, last, hist, gw>>

\* process_stage once get_system_prompt has answered (pipeline.py:53-62): the
\* ValueError of a missing prompt, which execute_pipeline catches, or the messages
WithPrompt(w, system_prompt) ==
  LET me == wk[w]
      current_prompt == IF Len(me.responses) = 0 THEN futures[me.fi].prompt ELSE Null
      previous_response == IF Len(me.responses) = 0 THEN Null
                           ELSE Some(Last(me.responses))
  IN IF ~Truthy(system_prompt)
       THEN Return(w, me.log, me.responses)
       ELSE /\ wk' = [wk EXCEPT ![w].pc = "complete",
                                ![w].messages =
                                   build_messages(current_prompt, system_prompt,
                                                  previous_response)]
            /\ UNCHANGED <<futures, last>>

\* pipeline.py:83-84 and get_system_prompt up to the query (db.py:211-216): the
\* answer of the cache, or the acquisition of _pool_lock, which waits while it is held
StartStage(w) ==
  /\ wk[w].pc = "stage"
  /\ LET dest_col == stages[wk[w].k].dst
     IN IF dest_col \in prompt_cache
          THEN /\ WithPrompt(w, get_system_prompt(prompts, dest_col))
               /\ UNCHANGED locks
          ELSE /\ pool_lock = 0
               /\ pool_lock' = w
               /\ wk' = [wk EXCEPT ![w].pc = "prompt"]
               /\ UNCHANGED <<prompt_cache, futures, last>>
  /\ UNCHANGED <<config, tools, schema, table, pending, dpc, run, counters, chunks, scanInfo, hist, gw>>

\* a lookup that returns with _pool_lock still held
PromptQueryKeepingLock(w) ==
  /\ wk[w].pc = "prompt"
  /\ prompt_cache' = prompt_cache \cup {stages[wk[w].k].dst}
  /\ WithPrompt(w, get_system_prompt(prompts, stages[wk[w].k].dst))
  /\ UNCHANGED <<config, tools, schema, pool_lock, table, pending, dpc, run, counters, chunks, scanInfo, hist, gw>>

\* get_system_prompt under the lock (db.py:216-233): the query, or its except branch
\* (up = FALSE), the fill of the cache and the release of the lock
PromptQuery(w) ==
  /\ wk[w].pc = "prompt"
  /\ \E up \in BOOLEAN :
       LET dest_col == stages[wk[w].k].dst
           prompt == IF up THEN get_system_prompt(prompts, dest_col) ELSE Null
       IN /\ prompt_cache' = IF Truthy(prompt) THEN prompt_cache \cup {dest_col}
                              ELSE prompt_cache
          /\ hist' = [hist EXCEPT !.storeFailed = @ \/ ~up]
          /\ WithPrompt(w, prompt)
  /\ pool_lock' = 0
  /\ UNCHANGED <<config, tools, schema, table, pending, dpc, run, counters, chunks, scanInfo, gw>>

\* the gateway call and the test of its result (pipeline.py:63-66)
CompleteWith(w, results) ==
  /\ wk[w].pc = "complete"
  /\ \E r \in results :
       LET me == wk[w]
           log == Append(me.log, LogEntry(me.k, me.messages, r))
       IN /\ hist' = [hist EXCEPT !.gwFailed = @ \/ r.kind # "success" \/ r.calls > 1]
          /\ IF Contains(r.text, ErrorMarker)
               THEN Return(w, log, me.responses)
               ELSE /\ wk' = [wk EXCEPT ![w].pc = "update", ![w].response = r.text,
                                        ![w].log = log]
                    /\ UNCHANGED <<futures, last>>
  /\ UNCHANGED <<config, tools, locks, schema, table, pending, dpc, run, counters, chunks, scanInfo, gw>>

Complete(w) == CompleteWith(w, CompleteResults)

\* process_stage returns the response (pipeline.py:69, 86-88): next stage or the end
AfterUpdate(w, log) ==
  LET me == wk[w]
      responses == Append(me.responses, me.response)
  IN IF me.k = Len(stages)
       THEN Return(w, log, responses)
       ELSE /\ wk' = [wk EXCEPT ![w].pc = "stage", ![w].k = me.k + 1,
                                ![w].responses = responses, ![w].log = log,
                                ![w].messages = <<>>, ![w].response = <<>>]
            /\ UNCHANGED <<futures, last>>

\* an UPDATE that sets the stage's source column
StatementOnSource(me) ==
  [id |-> futures[me.fi].id, column |-> stages[me.k].src[1], value |-> me.response]

\* the UPDATE of process_stage: SET "<dest_col>" = response WHERE index = chunk_index
Statement(me) == [id |-> futures[me.fi].id, column |-> stages[me.k].dst, value |-> me.response]

\* update_pipeline_result: cursor.execute of the UPDATE (db.py:240-243), or the
\* except branch (db.py:246-248) on the shared connection
Execute(w) ==
  /\ wk[w].pc = "update"
  /\ LET me == wk[w]
         log == [me.log EXCEPT ![Len(me.log)].update = "issued"]
     IN \E ok \in Answers({stages[me.k].dst}) :
          /\ hist' = [hist EXCEPT !.storeFailed = @ \/ ~ok]
          /\ IF ok
               THEN /\ pending' = Append(pending, Statement(me))
                    /\ wk' = [wk EXCEPT ![w].pc = "commit", ![w].log = log]
                    /\ UNCHANGED <<futures, last>>
               ELSE /\ pending' = <<>>
                    /\ AfterUpdate(w, [log EXCEPT ![Len(log)].written = "failed"])
  /\ UNCHANGED <<config, tools, locks, schema, table, dpc, run, counters, chunks, scanInfo, gw>>

RECURSIVE Apply(_, _)
Apply(tbl, stmts) ==
  IF stmts = <<>> THEN tbl
  ELSE Apply([tbl EXCEPT ![stmts[1].id][stmts[1].column] = Some(stmts[1].value)], Tail(stmts))

\* update_pipeline_result: conn.commit() (db.py:245), or the except branch
Commit(w) ==
  /\ wk[w].pc = "commit"
  /\ \E ok \in BOOLEAN :
       /\ table' = IF ok THEN Apply(table, pending) ELSE table
       /\ hist' = [hist EXCEPT !.storeFailed = @ \/ ~ok]
       /\ pending' = <<>>
       /\ AfterUpdate(w, [wk[w].log EXCEPT ![Len(wk[w].log)].written =
                                              IF ok THEN "yes" ELSE "failed"])
  /\ UNCHANGED <<config, tools, locks, schema, dpc, run, counters, chunks, scanInfo, gw>>

Next ==
  \/ ProcessAll
  \/ Scan
  \/ Submit
  \/ Collect
  \/ \E w \in Workers : TakeTask(w)
  \/ \E w \in Workers : StartStage(w)
  \/ \E w \in Workers : PromptQuery(w)
  \/ \E w \in Workers : Complete(w)
  \/ \E w \in Workers : Execute(w)
  \/ \E w \in Workers : Commit(w)

Spec == Init /\ [][Next]_vars

(* ---- process-all invoked twice, the transport answering every call at once ---- *)
FirstTrySuccesses == {r \in CompleteResults : r.kind = "success" /\ r.calls = 1}

CompleteAtOnce(w) == CompleteWith(w, FirstTrySuccesses)

NextTwice ==
  \/ ProcessAllAgain
  \/ Scan
  \/ Submit
  \/ Collect
  \/ \E w \in Workers : TakeTask(w)
  \/ \E w \in Workers : StartStage(w)
  \/ \E w \in Workers : PromptQuery(w)
  \/ \E w \in Workers : CompleteAtOnce(w)
  \/ \E w \in Workers : Execute(w)
  \/ \E w \in Workers : Commit(w)

SpecTwice == Init /\ [][NextTwice]_vars

(* ---- one process-all run on a table with every source filled, the transport ---- *)
(* ---- answering every call at once                                           ---- *)
InitBatches ==
  /\ Init
  /\ \A i \in Ids : Truthy(select_part(table[i], stages[1].src))

NextBatches ==
  \/ ProcessAll
  \/ Scan
  \/ Submit
  \/ Collect
  \/ \E w \in Workers : TakeTask(w)
  \/ \E w \in Workers : StartStage(w)
  \/ \E w \in Workers : PromptQuery(w)
  \/ \E w \in Workers : CompleteAtOnce(w)
  \/ \E w \in Workers : Execute(w)
  \/ \E w \in Workers : Commit(w)

SpecBatches == InitBatches /\ [][NextBatches]_vars

(* ---- construction of the PipelineExecutor, then one process-all run ---- *)
AllColumns == UNION {ColsOf(stgs) : stgs \in StageSpecs}

\* DatabaseHandler.validate_columns: every missing destination column is added, in
\* stage order; a failing statement (fail_at = k: the one for stage k; 0: none) ends
\* it there, and the except branch swallows the error (db.py:187-190)
validate_columns(cols, stgs, fail_at) ==
  cols \cup {stgs[k].dst : k \in 1..(IF fail_at = 0 THEN Len(stgs) ELSE fail_at - 1)}

\* a validation that creates the destination columns before it looks at the sources
validate_pipeline_columns_creating_first(cols, stgs, namesUp, fail_at) ==
  LET actual_columns == IF namesUp THEN cols ELSE {}
  IN IF \E src_col \in SourcesOf(stgs) : src_col \notin actual_columns
       THEN [raised |-> "ValueError", columns |-> validate_columns(cols, stgs, fail_at)]
       ELSE [raised |-> "none", columns |-> validate_columns(cols, stgs, fail_at)]

\* PipelineExecutor.validate_pipeline_columns; namesUp = FALSE is the except branch
\* of get_column_names, which answers []
validate_pipeline_columns(cols, stgs, namesUp, fail_at) ==
  LET actual_columns == IF namesUp THEN cols ELSE {}
  IN IF \E src_col \in SourcesOf(stgs) : src_col \notin actual_columns
       THEN [raised |-> "ValueError", columns |-> cols]
       ELSE [raised |-> "none", columns |-> validate_columns(cols, stgs, fail_at)]

\* PipelineExecutor(llm, db, stages_arg, **keywords): __init__ takes no keyword but
\* its three parameters, so any other keyword is a TypeError before its body runs;
\* the body requires CLI_DF_MODEL (pipeline.py:29-31), parses the string and then
\* validates the columns (pipeline.py:34-44)
Construct(keywords) ==
  /\ built = "none"
  /\ dpc = "idle"
  /\ LET parsed == init_parse(stages_arg)
     IN IF keywords # {}
          THEN built' = "TypeError" /\ columns' = columns /\ hist' = hist
        ELSE IF ModelVariable \notin environ
          THEN built' = "ValueError" /\ columns' = columns /\ hist' = hist
        ELSE IF parsed.raised # "none"
          THEN built' = parsed.raised /\ columns' = columns /\ hist' = hist
        ELSE \E namesUp \in BOOLEAN, fail_at \in 0..Len(parsed.stages) :
               LET r == validate_pipeline_columns(columns, parsed.stages, namesUp, fail_at)
               IN /\ built' = IF r.raised = "none" THEN "ok" ELSE r.raised
                  /\ columns' = r.columns
                  /\ hist' = [hist EXCEPT !.storeFailed = @ \/ ~namesUp \/ fail_at # 0]
  /\ UNCHANGED <<config, tools, locks, table, pending, dpc, run, counters, chunks, scanInfo, futures,
                 wk, last, gw>>

\* the commands up to the pipeline (cli.py:38-46, cli.py:122-131): their own parse of
\* the string, then the call with the keyword model
CommandConstruct ==
  IF cli_parse(stages_arg).raised # "none"
    THEN /\ built = "none"
         /\ dpc = "idle"
         /\ built' = cli_parse(stages_arg).raised
         /\ UNCHANGED <<config, tools, locks, columns, table, pending, dpc, run, counters, chunks,
                        scanInfo, futures, wk, last, hist, gw>>
    ELSE Construct({"model"})

\* the call with the parameters of __init__ (pipeline.py:26)
DirectConstruct == Construct({})

\* a data table with some of the columns; a cell of a column that does not exist
\* holds nothing
InitConstruct ==
  /\ stages_arg \in StageStrings
  /\ stages = init_parse(stages_arg).stages
  /\ threads = 1
  /\ prompts = [d \in DestsOf(stages) |-> Some(<<"sys">>)]
  /\ columns \in SUBSET AllColumns
  /\ table \in [RecordIds(NumRecords) -> {r \in InitRows(stages) :
                          \A c \in ColsOf(stages) \ columns : IsNull(r[c])}]
  /\ built = "none"
  /\ pending = <<>>
  /\ dpc = "idle"
  /\ run = 0
  /\ total_count = 0 /\ total_chunks = 0 /\ total_successful = 0
  /\ chunks = <<>>
  /\ scanInfo = NoScan
  /\ futures = <<>>
  /\ wk = [w \in Workers |-> IdleWorker]
  /\ last = NoCall
  /\ hist = [NoHistory EXCEPT !.startColumns = columns]
  /\ gw = NoGateway
  /\ fcm = NoMatchCall
  /\ ph = NoPromptCalls
  /\ feed = NoFeed
  /\ environ \in SUBSET {ModelVariable}
  /\ prompt_cache = {}
  /\ pool_lock = 0

NextConstruct ==
  \/ CommandConstruct
  \/ DirectConstruct
  \/ ProcessAll
  \/ Scan
  \/ Submit
  \/ Collect
  \/ \E w \in Workers : TakeTask(w)
  \/ \E w \in Workers : StartStage(w)
  \/ \E w \in Workers : PromptQuery(w)
  \/ \E w \in Workers : CompleteAtOnce(w)
  \/ \E w \in Workers : Execute(w)
  \/ \E w \in Workers : Commit(w)

SpecConstruct == InitConstruct /\ [][NextConstruct]_vars

(* ---- the process-chunk command: one record, run by the command's own thread ---- *)
InitChunk == Init /\ threads = 1

\* cli.py:133-136: the scan with limit 1, and the return when it is empty
ProcessChunk ==
  /\ built = "ok"
  /\ dpc = "idle"
  /\ \E up \in Answers(ScanColumns) :
       /\ chunks' = get_unprocessed_chunks(table, stages, 1, up)
       /\ scanInfo' = [done |-> TRUE, limit |-> 1, up |-> up]
       /\ hist' = [hist EXCEPT !.storeFailed = @ \/ ~up,
                               !.submitted = Len(chunks')]
  /\ run' = run + 1
  /\ futures' = [n \in 1..Len(chunks') |-> NewFuture(chunks'[n])]
  /\ dpc' = IF chunks' = <<>> THEN "done" ELSE "wait"
  /\ UNCHANGED <<config, tools, locks, schema, table, pending, counters, wk, last, gw>>

\* cli.py:139-144: execute_pipeline has returned and the responses are echoed
ChunkDone ==
  /\ dpc = "wait"
  /\ \A n \in 1..Len(futures) : futures[n].status = "done"
  /\ dpc' = "done"
  /\ UNCHANGED <<config, tools, locks, schema, table, pending, run, counters, chunks, scanInfo, futures, wk, last,
                 hist, gw>>

NextChunk ==
  \/ ProcessChunk
  \/ ChunkDone
  \/ \E w \in Workers : TakeTask(w)
  \/ \E w \in Workers : StartStage(w)
  \/ \E w \in Workers : PromptQuery(w)
  \/ \E w \in Workers : Complete(w)
  \/ \E w \in Workers : Execute(w)
  \/ \E w \in Workers : Commit(w)

SpecChunk == InitChunk /\ [][NextChunk]_vars

(* ---- one call of LLMClient.complete, over every behaviour of the transport ---- *)
Idle ==
  /\ threads = 1
  /\ prompts = [d \in DestsOf(stages) |-> Some(<<"sys">>)]
  /\ pending = <<>>
  /\ dpc = "idle"
  /\ run = 0
  /\ total_count = 0 /\ total_chunks = 0 /\ total_successful = 0
  /\ chunks = <<>>
  /\ scanInfo = NoScan
  /\ futures = <<>>
  /\ wk = [w \in Workers |-> IdleWorker]
  /\ last = NoCall
  /\ hist = [NoHistory EXCEPT !.startColumns = ColsOf(stages)]
  /\ prompt_cache = {}
  /\ pool_lock = 0
  /\ columns = ColsOf(stages)
  /\ built = "ok"
  /\ stages_arg \in StringsOf(stages)

InitGateway ==
  /\ stages = <<Stage(<<"chunk">>, "summary")>>
  /\ table = [i \in RecordIds(NumRecords) |-> [c \in ColsOf(stages) |-> Null]]
  /\ Idle
  /\ ToolsIdle
  /\ \E n \in 0..MaxRetriesBound :
       gw \in [phase : {"called"}, script : Scripts(n), max_retries : {n}, result : {<<>>}]

CompleteReturns ==
  /\ gw.phase = "called"
  /\ gw' = [gw EXCEPT !.phase = "returned", !.result = complete(gw.script, gw.max_retries)]
  /\ UNCHANGED <<config, tools, locks, schema, table, pending, dpc, run, counters, chunks, scanInfo, futures, wk,
                 last, hist>>

NextGateway == CompleteReturns

SpecGateway == InitGateway /\ [][NextGateway]_vars

(* ---- process-all on a backlog larger than one batch, some inputs never answered ---- *)
\* a source text for which every transport call fails, in every attempt of every run
Unanswerable == "unanswerable"
BacklogSources == {Some(<<"chunk">>), Some(<<Unanswerable>>)}

InitBacklog ==
  /\ stages = <<Stage(<<"chunk">>, "summary")>>
  /\ table \in [RecordIds(BacklogRecords) ->
                  RowsOver(stages, [c \in SourcesOf(stages) |-> BacklogSources], DestCells)]
  /\ Idle
  /\ gw = NoGateway
  /\ ToolsIdle

ExhaustedResults == {r \in CompleteResults : r.kind = "exhausted"}

\* the first-try successes whose text does not hold the error marker
PlainSuccesses == {r \in FirstTrySuccesses : ~Contains(r.text, ErrorMarker)}

\* the gateway call of worker w: exhausted when the record's input is never answered,
\* a first-try success otherwise
CompleteFated(w) ==
  /\ wk[w].pc = "complete"
  /\ IF \E n \in 1..Len(wk[w].messages) : Contains(wk[w].messages[n].content, Unanswerable)
       THEN CompleteWith(w, ExhaustedResults)
       ELSE CompleteWith(w, PlainSuccesses)

NextBacklog ==
  \/ ProcessAll
  \/ Scan
  \/ Submit
  \/ Collect
  \/ \E w \in Workers : TakeTask(w)
  \/ \E w \in Workers : StartStage(w)
  \/ \E w \in Workers : PromptQuery(w)
  \/ \E w \in Workers : CompleteFated(w)
  \/ \E w \in Workers : Execute(w)
  \/ \E w \in Workers : Commit(w)

SpecBacklog == InitBacklog /\ [][NextBacklog]_vars

(* ---- process-all on one stage, every gateway call free to fail or to succeed ---- *)
InitLoop ==
  /\ Init
  /\ Len(stages) = 1
  /\ \A d \in DestsOf(stages) : Truthy(prompts[d])

CompleteEither(w) == CompleteWith(w, ExhaustedResults \cup PlainSuccesses)

NextLoop ==
  \/ ProcessAll
  \/ Scan
  \/ Submit
  \/ Collect
  \/ \E w \in Workers : TakeTask(w)
  \/ \E w \in Workers : StartStage(w)
  \/ \E w \in Workers : PromptQuery(w)
  \/ \E w \in Workers : CompleteEither(w)
  \/ \E w \in Workers : Execute(w)
  \/ \E w \in Workers : Commit(w)

\* the command is started, the pool runs its tasks and every call returns
SpecLoop == InitLoop /\ [][NextLoop]_vars /\ WF_vars(NextLoop)

(* ---- the prompt calls of one DatabaseHandler, in any order ---- *)
PromptTable == "docs"
PromptStages == {"summary"}
PromptTexts == {<<"p1">>, <<"p2">>}

\* f"{table}:{stage}", or the stage alone when there is no table
PrefixedKey(tbl, stage) == IF tbl = Null THEN <<stage>> ELSE <<TextOf(tbl)[1], ":", stage>>
PromptKeys == {PrefixedKey(t, st) : t \in {Null, Some(<<PromptTable>>)}, st \in PromptStages}

InitPrompts ==
  /\ stages = <<Stage(<<"chunk">>, "summary")>>
  /\ table = [i \in RecordIds(NumRecords) |-> [c \in ColsOf(stages) |-> Null]]
  /\ Idle
  /\ gw = NoGateway
  /\ fcm = NoMatchCall
  /\ environ = {ModelVariable}
  /\ feed = NoFeed
  /\ \E t \in {Null, Some(<<PromptTable>>)} :
       ph = [NoPromptCalls EXCEPT !.data_table = t,
                                  !.rows = [k \in PromptKeys |-> Null],
                                  !.cache = [k \in PromptKeys |-> Null]]

\* the rows or the cache after the keys of `keys` have been given the prompt
WithPrompts(f, keys, prompt) == [k \in DOMAIN f |-> IF k \in keys THEN Some(prompt) ELSE f[k]]

\* DatabaseHandler.set_system_prompt: one upsert per key, each followed by the
\* update of the cache, then the commit; fail_at = n is a failure of statement n
\* (n = Len(stages_to_set) + 1: of the commit), after which the except branch rolls
\* back and raises
set_system_prompt(stage, prompt, table_name, fail_at) ==
  LET stages_to_set == <<PrefixedKey(Null, stage)>>
                         \o (IF table_name = Null THEN <<>> ELSE <<PrefixedKey(table_name, stage)>>)
      executed == {stages_to_set[n] : n \in 1..(IF fail_at = 0 THEN Len(stages_to_set)
                                                  ELSE IF fail_at > Len(stages_to_set)
                                                    THEN Len(stages_to_set)
                                                  ELSE fail_at - 1)}
  IN [ph EXCEPT !.rows = IF fail_at = 0 THEN WithPrompts(@, executed, prompt) ELSE @,
                !.cache = WithPrompts(@, executed, prompt),
                !.op = "set", !.key = <<>>, !.ret = <<>>, !.failed = fail_at # 0,
                !.faulted = @ \/ fail_at # 0]

SetPrompt ==
  /\ \E stage \in PromptStages, prompt \in PromptTexts, table_name \in {Null, Some(<<PromptTable>>)} :
       \E fail_at \in 0..3 :
         /\ fail_at <= (IF table_name = Null THEN 2 ELSE 3)
         /\ ph' = set_system_prompt(stage, prompt, table_name, fail_at)
  /\ UNCHANGED <<config, fcm, environ, feed, locks, schema, table, pending, dpc, run, counters, chunks,
                 scanInfo, futures, wk, last, hist, gw>>

\* DatabaseHandler.delete_system_prompt on the key as stored: the row is deleted when
\* it exists and the statements succeed; the cache is left as it is
delete_system_prompt(key, ok) ==
  [ph EXCEPT !.rows = IF ok /\ ph.rows[key] # Null THEN [@ EXCEPT ![key] = Null] ELSE @,
             !.op = "delete", !.key = key, !.ret = <<>>,
             !.failed = ~ok \/ ph.rows[key] = Null,
             !.faulted = @ \/ ~ok]

DeletePrompt ==
  /\ \E key \in PromptKeys, ok \in BOOLEAN : ph' = delete_system_prompt(key, ok)
  /\ UNCHANGED <<config, fcm, environ, feed, locks, schema, table, pending, dpc, run, counters, chunks,
                 scanInfo, futures, wk, last, hist, gw>>

\* DatabaseHandler.get_system_prompt on this handler: the cache first, then the query
\* (up = FALSE: its except branch), whose non-empty answer is cached
GetPrompt ==
  /\ \E stage \in PromptStages, up \in BOOLEAN :
       LET cache_key == PrefixedKey(ph.data_table, stage)
           prompt == IF up THEN get_system_prompt(ph.rows, cache_key) ELSE Null
       IN IF ph.cache[cache_key] # Null
            THEN ph' = [ph EXCEPT !.op = "get", !.key = cache_key, !.ret = ph.cache[cache_key],
                                  !.failed = FALSE]
            ELSE ph' = [ph EXCEPT !.op = "get", !.key = cache_key, !.ret = prompt,
                                  !.failed = ~up, !.faulted = @ \/ ~up,
                                  !.cache = IF Truthy(prompt) THEN [@ EXCEPT ![cache_key] = prompt]
                                            ELSE @]
  /\ UNCHANGED <<config, fcm, environ, feed, locks, schema, table, pending, dpc, run, counters, chunks,
                 scanInfo, futures, wk, last, hist, gw>>

NextPrompts ==
  \/ SetPrompt
  \/ DeletePrompt
  \/ GetPrompt

SpecPrompts == InitPrompts /\ [][NextPrompts]_vars

(* ---- llamacpp/feedQaPrompt.py: main over the files of the source directory ---- *)
\* get_supported_files: the files of the directory tree, in the order of the walk
files_to_process == [n \in 1..MaxFiles |-> n]
FileStatuses == {"none", "processing", "completed", "failed"}

\* processed_files.db outlives the program: a file may carry the status of an
\* earlier run; the ProcessingStatus object is created empty
InitFeed ==
  /\ stages = <<Stage(<<"chunk">>, "summary")>>
  /\ table = [i \in RecordIds(NumRecords) |-> [c \in ColsOf(stages) |-> Null]]
  /\ Idle
  /\ gw = NoGateway
  /\ fcm = NoMatchCall
  /\ environ = {ModelVariable}
  /\ ph = NoPromptCalls
  /\ \E db \in [1..MaxFiles -> FileStatuses] : feed = [NoFeed EXCEPT !.processed_files = db]

is_file_processed(f, filepath) == f.processed_files[filepath] = "completed"

mark_file_status(f, filepath, status) == [f EXCEPT !.processed_files[filepath] = status]

\* ProcessingStatus.start_file
start_file(f, filepath) == [f EXCEPT !.active_files = @ \cup {filepath}]

\* ProcessingStatus.complete_file
complete_file(f, filepath, success) ==
  [f EXCEPT !.active_files = @ \ {filepath},
            !.completed_files = IF success THEN @ \cup {filepath} ELSE @,
            !.failed_files = IF success THEN @ ELSE @ \cup {filepath}]

\* process_file: start_file, the return on a file already completed, else the try
\* block (raises = TRUE: one of its statements raised, and the except branch ran)
process_file(f, filepath, raises) ==
  LET started == start_file(f, filepath)
  IN IF is_file_processed(started, filepath) THEN started
     ELSE IF raises
       THEN complete_file(mark_file_status(started, filepath, "failed"), filepath, FALSE)
     ELSE complete_file(mark_file_status(started, filepath, "completed"), filepath, TRUE)

\* one turn of the loop of main: process_file on the next file
ProcessFile ==
  /\ feed.handled < Len(files_to_process)
  /\ \E raises \in BOOLEAN :
       feed' = [process_file(feed, files_to_process[feed.handled + 1], raises)
                  EXCEPT !.handled = @ + 1]
  /\ UNCHANGED <<config, fcm, environ, ph, locks, schema, table, pending, dpc, run, counters,
                 chunks, scanInfo, futures, wk, last, hist, gw>>

NextFeed == ProcessFile

SpecFeed == InitFeed /\ [][NextFeed]_vars

(* ---- one call of find_closest_match, over every unknown name and column list ---- *)
InitMatch ==
  /\ stages = <<Stage(<<"chunk">>, "summary")>>
  /\ table = [i \in RecordIds(NumRecords) |-> [c \in ColsOf(stages) |-> Null]]
  /\ Idle
  /\ gw = NoGateway
  /\ fcm \in {c \in [phase : {"called"}, target : Names, options : OptionLists, result : {Null}] :
                \A n \in 1..Len(c.options) : c.options[n] # c.target}
  /\ environ = {ModelVariable}
  /\ ph = NoPromptCalls
  /\ feed = NoFeed

MatchReturns ==
  /\ fcm.phase = "called"
  /\ fcm' = [fcm EXCEPT !.phase = "returned",
                        !.result = find_closest_match(fcm.target, fcm.options)]
  /\ UNCHANGED <<config, environ, ph, feed, locks, schema, table, pending, dpc, run, counters,
                 chunks, scanInfo, futures, wk, last, hist, gw>>

NextMatch == MatchReturns

SpecMatch == InitMatch /\ [][NextMatch]_vars

(* ---- one call of get_unprocessed_chunks, over every table and limit ---- *)
AnyCells(col) == {Null, Some(<<>>), Some(<<col>>)}
AnyDestCells == {Null, Some(<<>>), Some(<<"old">>)}

InitScan ==
  /\ stages \in StageSpecs
  /\ table \in [RecordIds(NumRecords) -> RowsOver(stages, [c \in SourcesOf(stages) |-> AnyCells(c)], AnyDestCells)]
  /\ Idle
  /\ gw = NoGateway
  /\ ToolsIdle

ScanCall ==
  /\ \E limit \in 1..MaxLimit, up \in BOOLEAN :
       /\ chunks' = get_unprocessed_chunks(table, stages, limit, up)
       /\ scanInfo' = [done |-> TRUE, limit |-> limit, up |-> up]
  /\ hist' = hist
  /\ UNCHANGED <<config, tools, locks, schema, table, pending, dpc, run, counters, futures, wk, last, gw>>

NextScan == ScanCall

SpecScan == InitScan /\ [][NextScan]_vars

(* ======================= the claims ======================= *)
NonEmpty(c) == Truthy(c)
AllDestsNonEmpty(row) == \A d \in DestsOf(stages) : NonEmpty(row[d])
SomeDestEmpty(row) == \E d \in DestsOf(stages) : ~NonEmpty(row[d])
Eligible(row) == \A j \in 1..Len(stages[1].src) : NonEmpty(row[stages[1].src[j]])

\* C1: whatever the table and the limit, get_unprocessed_chunks returns no record
\* whose destination cells are non-empty for every stage
C1_ScannerSkipsComplete ==
  scanInfo.done =>
    \A n \in 1..Len(chunks) : ~AllDestsNonEmpty(table[chunks[n][1]])

\* a scan that answered with some record while another record was complete
C1_Witness ==
  /\ scanInfo.done /\ scanInfo.up
  /\ chunks # <<>>
  /\ \E i \in Ids : AllDestsNonEmpty(table[i]) /\ i \notin ScanIds(chunks)

\* the table is still the one the last get_unprocessed_chunks call of the driver read
ScanJustAnswered == scanInfo.done /\ scanInfo.up /\ (dpc = "scanned" \/ chunks = <<>>)

\* C2: for a multi-stage spec a record counts as incomplete iff any stage's
\* destination is empty: a scan with a limit that covers the table returns every
\* eligible record that has an empty destination, whichever stage it belongs to;
\* stated for tables whose records are all eligible
C2_AnyEmptyDestinationIsScanned ==
  (/\ ScanJustAnswered
   /\ scanInfo.limit >= NumRecords
   /\ Len(stages) > 1
   /\ \A i \in Ids : Eligible(table[i])) =>
    \A i \in Ids : SomeDestEmpty(table[i]) => i \in ScanIds(chunks)

\* the runs of execute_pipeline in progress, and the one that returned last
RunnerCalls ==
  {[id |-> futures[wk[w].fi].id, start |-> wk[w].start, log |-> wk[w].log] :
     w \in {v \in Workers : wk[v].pc # "idle"}}
  \cup (IF last.id = 0 THEN {} ELSE {[id |-> last.id, start |-> last.start, log |-> last.log]})

\* those on a record that was an eligible source when the run took it
EligibleCalls == {c \in RunnerCalls : Eligible(c.start)}

\* C3: a stage whose destination already held a non-empty value when execute_pipeline
\* started is skipped: the gateway is not called for it (so a record that misses only
\* its last destination gets a gateway call for the last stage only)
C3_FilledStagesAreSkipped ==
  \A c \in EligibleCalls :
    \A n \in 1..Len(c.log) : ~NonEmpty(c.start[stages[c.log[n].k].dst])

\* C4: the gateway call of stage k+1 is in flight only if stage k's output is stored
\* in stage k's destination cell of that record, also when the store write failed
C4_NextStageAfterStoredOutput ==
  \A w \in Workers :
    (wk[w].pc = "complete" /\ wk[w].k > 1 /\ Eligible(wk[w].start)) =>
      table[futures[wk[w].fi].id][stages[wk[w].k - 1].dst] = Some(Last(wk[w].responses))

\* the stage outcomes of a finished 2-stage run: stage 1 Success, stage 2 Exhausted
SuccessThenExhausted(c) ==
  /\ Len(stages) = 2
  /\ Len(c.log) = 2
  /\ c.log[1].kind = "success"
  /\ c.log[2].kind = "exhausted"

\* C5: after a 2-stage run whose stage 1 gateway call succeeded and whose stage 2 was
\* Exhausted, the stage-1 destination is non-empty, the stage-2 destination is still
\* empty and a scan returns the record again
C5_PartialPersistence ==
  (last.id # 0 /\ Eligible(last.start) /\ SuccessThenExhausted(last)) =>
    /\ NonEmpty(table[last.id][stages[1].dst])
    /\ ~NonEmpty(table[last.id][stages[2].dst])
    /\ last.id \in ScanIds(get_unprocessed_chunks(table, stages, NumRecords, TRUE))

\* C6: after a PolicyRejected or Exhausted outcome the runner issues no write for that
\* stage and runs no later stage of the record
C6_FailedStageStopsTheRow ==
  \A c \in EligibleCalls :
    \A n \in 1..Len(c.log) :
      c.log[n].kind \in {"policy", "exhausted"} =>
        (c.log[n].update = "none" /\ n = Len(c.log))

\* the record is treated as complete: the scanner leaves it out and
\* get_processed_count counts it
TreatedAsComplete(i) == ~Unprocessed(table, stages, i)

\* C7: a record that the system treats as complete has a non-empty destination for
\* every stage; stated for the records execute_pipeline took with every destination
\* NULL, so that their completeness is the run's own doing
C7_CompleteMeansEveryStageFilled ==
  \A i \in Ids :
    (/\ last.id = i
     /\ Eligible(last.start)
     /\ \A d \in DestsOf(stages) : IsNull(last.start[d])
     /\ TreatedAsComplete(i)) => AllDestsNonEmpty(table[i])

\* every stage has its prompt and no statement on the store has failed
HealthyRun == (\A d \in DestsOf(stages) : Truthy(prompts[d])) /\ ~hist.storeFailed

\* C8: process-all is run twice and no transport call fails: the second run submits
\* no record and leaves every cell as the first run left it
C8_SecondRunIsNoOp ==
  (run = 2 /\ ~hist.gwFailed /\ HealthyRun) =>
    (hist.submitted = 0 /\ table = hist.endTable)

\* a transport call that fails without the policy marker
TransientFailure(o) ==
  /\ ~(o.kind = "ok" /\ o.content # <<>>)
  /\ ~(o.kind = "raise" /\ Contains(o.msg, RiskMarker))

\* C9: when every transport call fails without the policy marker, complete makes
\* exactly max_retries transport calls and returns the maximum-retries error
C9_RetryBound ==
  (gw.phase = "returned" /\ \A i \in 1..gw.max_retries : TransientFailure(gw.script[i])) =>
    /\ gw.result.calls = gw.max_retries
    /\ gw.result.kind = "exhausted"
    /\ gw.result.text = ExhaustedText

C9_Witness ==
  /\ gw.phase = "returned"
  /\ gw.max_retries = DefaultMaxRetries
  /\ \A i \in 1..gw.max_retries : TransientFailure(gw.script[i])
  /\ gw.result.calls = DefaultMaxRetries

\* the first transport call raises with the policy marker in its message
FirstCallRejected ==
  /\ gw.max_retries >= 1
  /\ gw.script[1].kind = "raise"
  /\ Contains(gw.script[1].msg, RiskMarker)

\* C10: when the first transport call fails with the policy marker, complete makes
\* one transport call, sleeps never and returns the policy sentinel
C10_PolicyShortCircuit ==
  (gw.phase = "returned" /\ FirstCallRejected) =>
    /\ gw.result.calls = 1
    /\ gw.result.waits = <<>>
    /\ gw.result.kind = "policy"
    /\ gw.result.text = PolicyText

C10_Witness ==
  /\ gw.phase = "returned"
  /\ FirstCallRejected
  /\ gw.max_retries = DefaultMaxRetries
  /\ gw.result.text = PolicyText

\* C11: complete never raises, and a PolicyRejected outcome is never handled by the
\* runner as a Success text: process_stage goes on to the UPDATE only with the text
\* of a Success
C11_PolicyNeverHandledAsSuccess ==
  \A w \in Workers :
    wk[w].pc \in {"update", "commit"} => Last(wk[w].log).kind = "success"

\* the user messages of a message sequence
UserContents(messages) ==
  LET idx == Ascending({n \in 1..Len(messages) : messages[n].role = "user"})
  IN [n \in 1..Len(idx) |-> messages[idx[n]].content]

\* the initial input the scanner gave for a row
InitialInput(row) == TextOf(select_part(row, stages[1].src))

C13_SuccessTextIsPersisted ==
  (last.id # 0 /\ Eligible(last.start)) =>
    \A n \in 1..Len(last.log) :
      last.log[n].kind = "success" => last.log[n].update = "issued"

\* C14: process_all ends normally only on an empty scan: when it has ended, a scan
\* would return no record; stated for single-column sources, eligible records and
\* runs in which no statement on the store failed
C14_EndsOnlyOnEmptyScan ==
  (/\ dpc = "done"
   /\ ~hist.storeFailed
   /\ Len(stages[1].src) = 1
   /\ \A i \in Ids : Eligible(table[i])) =>
    get_unprocessed_chunks(table, stages, threads * BatchMultiplier, TRUE) = <<>>

\* every future of the batch has its result and every pool thread is idle
BatchFinished ==
  /\ \A n \in 1..Len(futures) : futures[n].status = "done"
  /\ \A w \in Workers : wk[w].pc = "idle"

InFlight(w) == futures[wk[w].fi].id

\* C16: in one driver run no record id is processed by two workers at once: a scan
\* answers with each id at most once, a batch holds each id at most once and two busy
\* pool threads never hold the same id
C16_NoIdTwiceInFlight ==
  /\ \A m, n \in 1..Len(chunks) : m # n => chunks[m][1] # chunks[n][1]
  /\ \A m, n \in 1..Len(futures) : m # n => futures[m].id # futures[n].id
  /\ \A v, w \in Workers :
       (v # w /\ wk[v].pc # "idle" /\ wk[w].pc # "idle") => InFlight(v) # InFlight(w)

\* two pool threads are inside the gateway call at the same time
C16_Witness ==
  \E v, w \in Workers :
    /\ v # w
    /\ wk[v].pc = "complete" /\ wk[w].pc = "complete"
    /\ InFlight(v) # InFlight(w)

\* worker v is inside LLMClient.complete: waiting for the transport or sleeping
Waiting(v) == wk[v].pc = "complete"

\* the step of process_stage that worker w is at can be taken
CanStep(w) ==
  /\ wk[w].pc = "stage" => ENABLED StartStage(w)
  /\ wk[w].pc = "prompt" => ENABLED PromptQuery(w)
  /\ wk[w].pc = "complete" => ENABLED CompleteAtOnce(w)
  /\ wk[w].pc = "update" => ENABLED Execute(w)
  /\ wk[w].pc = "commit" => ENABLED Commit(w)

\* C17: a worker inside complete holds no shared lock, and while workers wait there
\* every other worker can take its step (prompt lookup, gateway call, store write)
\* unless _pool_lock is held by a worker that is itself inside a prompt lookup
C17_WaitBlocksOnlyItself ==
  \A v \in Workers :
    Waiting(v) =>
      /\ pool_lock # v
      /\ \A w \in Workers \ {v} :
           (pool_lock = 0 \/ wk[pool_lock].pc = "prompt") =>
             (CanStep(w) \/ (wk[w].pc = "stage" /\ pool_lock # 0))

\* one worker waits inside complete while another holds the lock for its lookup
C17_Witness ==
  \E v, w \in Workers :
    /\ v # w
    /\ Waiting(v)
    /\ wk[w].pc = "prompt" /\ pool_lock = w
    /\ ENABLED PromptQuery(w)

\* the run of execute_pipeline that returned last stopped before its last stage
StoppedEarly == last.id # 0 /\ Len(last.responses) < Len(stages)

\* C18: a record whose run stopped on a failed stage or a missing prompt is reported
\* to the driver as failed: the result of its future is False, so the succeeded
\* counter is not incremented for it
C18_StoppedRunReportedFailed ==
  \A n \in 1..Len(futures) :
    (StoppedEarly /\ futures[n].id = last.id /\ futures[n].status = "done") =>
      ~futures[n].result

\* the prompt table has a prompt for each of the stages 1..k
PromptsUpTo(k) == \A j \in 1..k : Truthy(prompts[stages[j].dst])

\* C19: when the prompt of a stage is missing, the runner makes no gateway call and
\* no write for that stage or a later one, and the driver is not stopped: the rest
\* of the batch can still be taken by the pool
C19_MissingPromptStopsOnlyTheRow ==
  /\ \A c \in RunnerCalls :
       \A n \in 1..Len(c.log) : PromptsUpTo(c.log[n].k)
  /\ \A w \in Workers :
       wk[w].pc \in {"complete", "update", "commit"} => PromptsUpTo(wk[w].k)
  /\ (StoppedEarly /\ \E n \in 1..Len(futures) : futures[n].status = "queued") =>
       (dpc = "wait" /\ \E w \in Workers : ENABLED TakeTask(w))

\* a run stopped on the missing prompt of its second stage, after which another
\* record of the same batch was run
C19_Witness ==
  /\ Len(stages) = 2
  /\ ~Truthy(prompts[stages[2].dst])
  /\ StoppedEarly /\ Len(last.log) = 1 /\ last.log[1].update = "issued"
  /\ \E n \in 1..Len(futures) :
       futures[n].id # last.id /\ futures[n].status = "done" /\ futures[n].id < last.id
  /\ dpc = "wait"

\* a source column of the stage spec is not in the data table
SourceAbsent == \E c \in SourcesOf(stages) : c \notin columns

\* no scan, no gateway call and no statement on the data table has happened
RunNotBegun ==
  /\ run = 0 /\ ~scanInfo.done /\ futures = <<>>
  /\ \A w \in Workers : wk[w].pc = "idle"
  /\ pending = <<>>

\* C20: when a source column of the stage spec is absent, the construction of the
\* pipeline ends in the validation error, and no scan, gateway call or write follows
C20_AbsentSourceIsValidationError ==
  (SourceAbsent /\ built # "none") => (built = "ValueError" /\ RunNotBegun)

\* the construction ran the body of __init__ to its end or to an exception of its own
Validated == built \notin {"none", "TypeError"}

\* the columns of the first stage's source exist
FirstSourcesExist ==
  stages # <<>> /\ \A j \in 1..Len(stages[1].src) : stages[1].src[j] \in columns

\* C21: validation requires only the first stage's source columns: with them in the
\* table and no failing statement, a chained spec is accepted and every destination
\* column exists afterwards
C21_OnlyFirstSourceRequired ==
  (Validated /\ FirstSourcesExist /\ ~hist.storeFailed /\ ModelVariable \in environ) =>
    (built = "ok" /\ DestsOf(stages) \subseteq columns)

\* C22: when validation has returned without error, every stage's destination column
\* exists, also when a statement that creates one has failed
C22_DestinationsExistAfterValidation ==
  built = "ok" => DestsOf(stages) \subseteq columns

\* a pair of the --stages string has no ":"
PairWithoutColon ==
  \E n \in 1..Len(split(stages_arg, ",")) : Len(split(split(stages_arg, ",")[n], ":")) = 1

\* C23: a stage string with a pair that has no ":" is rejected with an error before
\* any change of the schema, any scan and any gateway call
C23_MalformedPairIsRejected ==
  (PairWithoutColon /\ built # "none") =>
    /\ built \in {"ValueError", "IndexError"}
    /\ columns = hist.startColumns
    /\ RunNotBegun

\* __init__ has rejected the string although no column is missing
C23_Witness ==
  /\ PairWithoutColon
  /\ built = "ValueError"
  /\ columns = AllColumns
  /\ Len(split(stages_arg, ",")) = 2

\* C24: get_unprocessed_chunks returns only eligible records: none whose first-stage
\* source has an empty cell
C24_ScannerReturnsOnlyEligible ==
  scanInfo.done =>
    \A n \in 1..Len(chunks) : Eligible(table[chunks[n][1]])

\* C25: with first-stage source "title+body", a process_all run that ended, in which
\* every prompt exists and neither the store nor the transport failed, has processed
\* every record with both fields non-empty (its destination is filled), and the
\* first stage's user message was title's text, the separator, then body's text
C25_TitlePlusBodyIsProcessed ==
  (/\ dpc = "done"
   /\ stages[1].src = <<"title", "body">>
   /\ HealthyRun /\ ~hist.gwFailed) =>
    /\ \A i \in Ids : Eligible(table[i]) => NonEmpty(table[i][stages[1].dst])
    /\ \A c \in EligibleCalls :
         c.log # <<>> =>
           UserContents(c.log[1].messages) =
             <<TextOf(c.start["title"]) \o <<Separator>> \o TextOf(c.start["body"])>>

\* the records that qualify for processing: eligible source, some destination empty
Qualifying == {i \in Ids : Eligible(table[i]) /\ SomeDestEmpty(table[i])}

\* C26: a get_unprocessed_chunks call with a positive limit that the store answered
\* returns at most limit entries with strictly ascending (so pairwise distinct) ids,
\* and they are the lowest-id records among those that qualify
C26_LowestIdsUpToLimit ==
  (ScanJustAnswered /\ scanInfo.limit > 0) =>
    /\ Len(chunks) <= scanInfo.limit
    /\ \A m, n \in 1..Len(chunks) : m < n => chunks[m][1] < chunks[n][1]
    /\ [n \in 1..Len(chunks) |-> chunks[n][1]] = Take(Ascending(Qualifying), scanInfo.limit)

\* the sum of a sequence of sleeps
RECURSIVE TotalWait(_)
TotalWait(waits) == IF waits = <<>> THEN 0 ELSE Head(waits) + TotalWait(Tail(waits))

EmptyCompletion(i) ==
  /\ i <= gw.result.calls
  /\ gw.script[i] = OkResponse(<<>>)

\* C28: an empty completion text is a failed attempt of complete: when it is not the
\* last attempt allowed, complete sleeps 2^(i-1) and makes another transport call,
\* and when it is the last, the call is exhausted; a Success carries the non-empty
\* content of its last transport call, and the text complete returns, the only text
\* process_stage can write to a destination cell, is never the empty string
C28_EmptyCompletionIsFailure ==
  gw.phase = "returned" =>
    /\ \A i \in 1..gw.max_retries :
         EmptyCompletion(i) =>
           IF i < gw.max_retries
             THEN gw.result.calls > i /\ gw.result.waits[i] = 2 ^ (i - 1)
             ELSE gw.result.kind = "exhausted" /\ Len(gw.result.waits) = i - 1
    /\ gw.result.kind = "success" =>
         /\ gw.result.text # <<>>
         /\ gw.result.text = gw.script[gw.result.calls].content
    /\ gw.result.text # <<>>

\* a call whose first completion was empty and whose second attempt succeeded
C28_Witness ==
  /\ gw.phase = "returned"
  /\ gw.max_retries = DefaultMaxRetries
  /\ EmptyCompletion(1)
  /\ gw.result.kind = "success"
  /\ gw.result.calls = 2
  /\ gw.result.waits = <<1>>

\* the query of the driver's last get_unprocessed_chunks call failed in the store
ScanFailed == scanInfo.done /\ ~scanInfo.up

\* C29: a scan that fails in the store is surfaced to the driver as an error, so
\* that process_all does not take it for a scan that found no work: after a failed
\* scan the command is not at its normal end, where it prints "Processing complete!"
C29_FailedScanIsNotCompletion ==
  ScanFailed => dpc # "done"

\* the UPDATE or the commit of stage entry n of call c failed in the store
WriteFailed(c, n) == c.log[n].written = "failed"

\* update_pipeline_result saw no error for any stage entry of call c
NoWriteFailed(c) == \A n \in 1..Len(c.log) : c.log[n].written # "failed"

\* C30: a store error while writing a cell of a record fails that record only: none
\* of its later stages run and it is reported failed, and a record whose own writes
\* all went through without an error has every text it wrote in its cell
C30_WriteErrorFailsOnlyThatRecord ==
  /\ \A c \in RunnerCalls :
       \A n \in 1..Len(c.log) : WriteFailed(c, n) => n = Len(c.log)
  /\ \A n \in 1..Len(futures) :
       (/\ futures[n].status = "done" /\ futures[n].id = last.id
        /\ \E m \in 1..Len(last.log) : WriteFailed(last, m)) => ~futures[n].result
  /\ (last.id # 0 /\ NoWriteFailed(last)) =>
       \A n \in 1..Len(last.log) :
         last.log[n].written = "yes" =>
           table[last.id][stages[last.log[n].k].dst] = Some(last.log[n].text)

\* the statements of the transaction that is open on the connection
OpenStatements == {pending[n] : n \in 1..Len(pending)}

\* C31: every worker's single-cell write is a transaction of its own on the shared
\* connection: between a worker's UPDATE and its own commit the statement stays in
\* the open transaction, which holds no other worker's statement, so that no other
\* worker's commit or rollback commits or discards it
C31_WritesAreIndependentTransactions ==
  \A w \in Workers :
    wk[w].pc = "commit" => OpenStatements = {Statement(wk[w])}

\* the call that returned, and the options that match its target at each level
Target == fcm.target
Options == fcm.options
Level(n) ==
  IF n = 1 THEN {k \in 1..Len(Options) : lower(Options[k]) = lower(Target)}
  ELSE IF n = 2 THEN {k \in 1..Len(Options) :
                        \/ IsIn(lower(Target), lower(Options[k]))
                        \/ IsIn(lower(Options[k]), lower(Target))}
  ELSE {k \in 1..Len(Options) :
          \/ startswith(lower(Options[k]), lower(Target))
          \/ endswith(lower(Options[k]), lower(Target))}
BestLevel == CHOOSE n \in 1..3 : Level(n) # {} /\ \A m \in 1..(n - 1) : Level(m) = {}

\* C32: for an unknown source name find_closest_match returns the first existing
\* column of the best level that has a match (case-insensitive exact, else substring
\* containment, else prefix/suffix), and None iff no column matches at any level
C32_ClosestMatchPriority ==
  fcm.phase = "returned" =>
    IF \A n \in 1..3 : Level(n) = {}
      THEN fcm.result = Null
      ELSE /\ fcm.result # Null
           /\ \E k \in Level(BestLevel) :
                /\ fcm.result = Some(Options[k])
                /\ \A j \in Level(BestLevel) : k <= j

\* the exact match is returned although a containing column comes first in the list
C32_Witness ==
  /\ fcm.phase = "returned"
  /\ Len(Options) = 2
  /\ 1 \in Level(2) /\ 1 \notin Level(1)
  /\ 2 \in Level(1)
  /\ fcm.result = Some(Options[2])

\* the eligible records that are still incomplete; a destination is only ever filled
\* and a source never changes, so each of them was eligible and incomplete when the
\* run began
StillIncomplete == {i \in Ids : Eligible(table[i]) /\ SomeDestEmpty(table[i])}

\* C33: when process_all has ended, in a run where the gateway fails permanently for
\* some records and succeeds for the others and no statement on the store failed,
\* every record that was eligible and incomplete at the start has been submitted to
\* the runner at least once
C33_EveryEligibleRecordIsAttempted ==
  (dpc = "done" /\ ~hist.storeFailed) => StillIncomplete \subseteq hist.attempted

\* the counters of the loop: total_chunks is the processed count plus the records
\* collected so far, and the scanner is called only while it is below total_count
LoopCounters ==
  /\ run > 0 =>
       total_chunks = hist.processed + hist.submitted - (IF dpc = "wait" THEN Len(futures) ELSE 0)
  /\ dpc \in {"scanned", "wait"} => total_chunks < total_count

\* the statement of the bound as the claim gives it
SubmissionsBelowBound ==
  hist.submitted < (total_count - hist.processed) + BatchMultiplier * threads

\* that bound, for every run in which no statement on the store failed
C34_Original == (run > 0 /\ ~hist.storeFailed) => SubmissionsBelowBound

\* C34: process_all always ends, also when every gateway call fails: total_chunks
\* starts at the processed count and grows by one per submitted record, no scan is
\* issued once it has reached total_count, and the submissions of a run number
\* fewer than (total - processed) + 2 * threads when total exceeds processed, and
\* none otherwise
C34_LoopTerminates ==
  /\ [](LoopCounters)
  /\ [](run > 0 => IF total_count > hist.processed THEN SubmissionsBelowBound
                                                   ELSE hist.submitted = 0)
  /\ <>(dpc = "done")

\* a run that has ended after a full batch in which every gateway call failed
C34_Witness ==
  /\ dpc = "done"
  /\ hist.submitted = BatchMultiplier * threads
  /\ \A i \in Ids : IsNull(table[i][LastDest(stages)])
  /\ last.id # 0 /\ \A n \in 1..Len(last.log) : last.log[n].kind = "exhausted"

\* every pair of the --stages string is source:destination
WellFormed == init_parse(stages_arg).raised = "none"

\* C35: with a well-formed stage spec, every source column in the table, CLI_DF_MODEL
\* set and no failing statement on the store, the construction of the pipeline by
\* the process-all and process-chunk commands succeeds, so that the command goes on
\* to its first get_unprocessed_chunks call
C35_CommandsConstructThePipeline ==
  [][(/\ CommandConstruct
      /\ WellFormed
      /\ ~SourceAbsent
      /\ ModelVariable \in environ
      /\ ~hist'.storeFailed) => built' = "ok"]_vars

\* worker w runs execute_pipeline for record i, is in the stage whose destination is
\* column c, and has executed the UPDATE of that stage with the given value
WriterOf(w, i, c, value) ==
  /\ wk[w].pc = "commit"
  /\ futures[wk[w].fi].id = i
  /\ stages[wk[w].k].dst = c
  /\ value = Some(wk[w].response)

\* C36: a cell changes only as the destination of a stage that a run of
\* execute_pipeline for that very record has reached, and to the response of that
\* stage; no first-stage source cell ever changes, and a run writes at most once
\* per stage
C36_RunWritesOnlyItsOwnDestinations ==
  /\ [][\A i \in Ids : \A c \in ColsOf(stages) :
          table'[i][c] # table[i][c] =>
            /\ c \in DestsOf(stages)
            /\ \A j \in 1..Len(stages[1].src) : c # stages[1].src[j]
            /\ \E w \in Workers : WriterOf(w, i, c, table'[i][c])]_vars
  /\ [](\A c \in RunnerCalls :
          \A m, n \in 1..Len(c.log) : m < n => c.log[m].k < c.log[n].k)

\* a two-stage run has stored both of its outputs while another record, not yet
\* run, still has both destinations empty
C36_Witness ==
  /\ Len(stages) = 2
  /\ last.id # 0 /\ Len(last.log) = 2
  /\ \A n \in 1..2 : table[last.id][stages[n].dst] = Some(last.log[n].text)
  /\ \E i \in Ids : i # last.id /\ \A d \in DestsOf(stages) : IsNull(table[i][d])

\* __init__ got as far as validate_pipeline_columns, which raised for a source column
UnknownSourceRaised ==
  /\ built = "ValueError"
  /\ WellFormed
  /\ ModelVariable \in environ

\* C37: when validate_pipeline_columns raises for an unknown source column, the
\* table has the columns it had before: every source of every stage is checked
\* before any destination column is created
C37_SchemaUnchangedOnUnknownSource ==
  UnknownSourceRaised => columns = hist.startColumns

\* the validation raised while a destination column of the spec is missing
C37_Witness ==
  /\ UnknownSourceRaised
  /\ SourceAbsent
  /\ \E d \in DestsOf(stages) : d \notin columns
  /\ \E c \in SourcesOf(stages) : c \in columns

\* C38: whatever set_system_prompt, delete_system_prompt and get_system_prompt calls
\* came before on the handler, none of them failing in the store, a
\* get_system_prompt call returns the value now stored under the key it looks up,
\* and None once that row has been deleted
C38_CacheAgreesWithStore ==
  (ph.op = "get" /\ ~ph.faulted) => ph.ret = ph.rows[ph.key]

(* C39: in feedQaPrompt, a file for which process_file has returned (already
   completed, newly completed or failed) is no longer in
   ProcessingStatus.active_files, so once every file has been handled the
   active-file count is zero. *)
ReturnedFiles == {files_to_process[n] : n \in 1..feed.handled}
C39_ReturnedFilesAreNotActive ==
  /\ ReturnedFiles \cap feed.active_files = {}
  /\ feed.handled = Len(files_to_process) => Cardinality(feed.active_files) = 0
====
